---- MODULE Spec2Model ----
(***************************************************************************)
(* Role binding engine of people_detection: RoleBindingManager             *)
(* (src/binding_manager.py) driven by key events, mouse clicks and the     *)
(* frames handed to try_assign_from_click.                                 *)
(*                                                                         *)
(* Strings the program builds (labels such as "Surgeon_2", "ID:1") are     *)
(* sequences of one-character strings, so that formatting is computed.     *)
(* current_role is Optional[str] restricted by the code to three literals; *)
(* it is the token "None", "Surgeon", "Assistant" or "Nurse".              *)
(* Keypoint coordinates are floats: a coordinate is [nan, v] where v       *)
(* counts units of 1/KpDen; image_scale is a pair of fractions             *)
(* <<num, den>>.  Both are exactly representable binary fractions.         *)
(*                                                                         *)
(* Spec is a run of the manager as main.py drives it (scale factors 1.0):  *)
(* keys, clicks, resolver calls and rendering in any order.  ResolverSpec  *)
(* is one call of try_assign_from_click entered from a manager state of a  *)
(* run, with any scale factors and any frame, unusable keypoints of every  *)
(* kind included; ViewerSpec adds the label lookups render_frame makes     *)
(* after that call.  ClickSpec is a run in which the calls of              *)
(* register_click are counted.  MainSpec is main() of main.py from its     *)
(* first statement to its return: the test of the options, the opening     *)
(* of the frame source, the loop (grab, retrieve and resolve, render, key  *)
(* poll with the mouse callbacks dispatched in it) and the cleanup.        *)
(* PairSpec runs the binding code of body_tracking.py beside the manager   *)
(* on the same frames, clicks and keys.                                    *)
(***************************************************************************)
EXTENDS Integers, Sequences, FiniteSets, TLC

\* ---------------------------------------------------------------- bounds
MaxId == 2          \* tracker ids are 1..MaxId
MaxBodies == 2      \* longest body_list of a frame
MaxAssign == 3      \* frames stop arriving after this many assignments

\* ------------------------------------------------------------- constants
KEY_S == 115
KEY_A == 97
KEY_N == 110
KEY_ESC == 27
KEY_Q == 113
KEY_M == 109
KEY_NONE == 255
KpDen == 2

Keys == {KEY_S, KEY_A, KEY_N, KEY_ESC, KEY_Q, KEY_M, KEY_NONE}
RoleKeys == {KEY_S, KEY_A, KEY_N, KEY_ESC}
Roles == {"Surgeon", "Assistant", "Nurse"}
BodyIds == 1..MaxId

\* --------------------------------------------------------------- strings
SurgeonStr == <<"S", "u", "r", "g", "e", "o", "n">>
AssistantStr == <<"A", "s", "s", "i", "s", "t", "a", "n", "t">>
NurseStr == <<"N", "u", "r", "s", "e">>
UnknownStr == <<"U", "n", "k", "n", "o", "w", "n">>

DigitChar(d) == <<"0", "1", "2", "3", "4", "5", "6", "7", "8", "9">>[d + 1]

RECURSIVE IntStr(_)
\* str(n) for n >= 0, as an f-string formats an int
IntStr(n) ==
    IF n < 10 THEN <<DigitChar(n)>>
    ELSE IntStr(n \div 10) \o <<DigitChar(n % 10)>>

\* f"{name}_{n}"
NumberedName(name, n) == name \o <<"_">> \o IntStr(n)

\* ------------------------------------------------------------ frame data
NaN == [nan |-> TRUE, v |-> 0]
Num(v) == [nan |-> FALSE, v |-> v]

\* body.keypoint_2d: None, an empty array, or an array whose element 0 is
\* the reference keypoint <<x, y>>
KpNone == [is_none |-> TRUE, kps |-> <<>>]
KpArray(kps) == [is_none |-> FALSE, kps |-> kps]

Keypoints ==
    { KpNone, KpArray(<<>>),
      KpArray(<< <<NaN, Num(0)>> >>), KpArray(<< <<Num(0), NaN>> >>),
      KpArray(<< <<Num(-1), Num(-1)>> >>),
      KpArray(<< <<Num(5), Num(1)>> >>),
      KpArray(<< <<Num(3), Num(3)>> >>) }

\* the keypoint arrays of the frames of a long run: one unusable, two usable
RunKeypoints ==
    { KpArray(<< <<Num(0), NaN>> >>),
      KpArray(<< <<Num(-1), Num(-1)>> >>),
      KpArray(<< <<Num(5), Num(3)>> >>) }

Body(id, kp) == [id |-> id, keypoint_2d |-> kp]

\* body lists of at most MaxBodies bodies with pairwise different ids and
\* keypoint arrays among kps
BodyLists(kps) ==
    UNION { { bl \in [1..n -> { Body(i, k) : i \in BodyIds, k \in kps }] :
                \A i, j \in 1..n : i # j => bl[i].id # bl[j].id } : n \in 0..MaxBodies }

\* sl.Bodies handed to the resolver, or None
NoneFrame == [is_none |-> TRUE, body_list |-> <<>>]
Frame(bl) == [is_none |-> FALSE, body_list |-> bl]
Frames == { NoneFrame } \cup { Frame(bl) : bl \in BodyLists(Keypoints) }
RunFrames == { NoneFrame } \cup { Frame(bl) : bl \in BodyLists(RunKeypoints) }

ClickPoints == { <<0, 0>>, <<2, 1>> }
\* main.py displays at the camera resolution: both scale factors are 1.0
UnitScale == << <<1, 1>>, <<1, 1>> >>
ImageScales == { UnitScale, << <<1, 2>>, <<1, 1>> >> }

\* ----------------------------------------------------------------- state
VARIABLES
    image_scale,      \* RoleBindingManager.image_scale
    role_map,         \* RoleBindingManager.role_map
    current_role,     \* RoleBindingManager.current_role
    click_pending,    \* RoleBindingManager.click_pending
    click_pos,        \* RoleBindingManager.click_pos
    surgeon_count,    \* RoleBindingManager.surgeon_count
    assistant_count,  \* RoleBindingManager.assistant_count
    nurse_count,      \* RoleBindingManager.nurse_count
    pc,               \* "idle", "returned" (from try_assign_from_click), and
                      \* "entry" where a single resolver call is examined
    bodies,           \* the frame passed to the last try_assign_from_click
    best_body,        \* index in bodies.body_list of best_body, 0 for None
    op,               \* the branch the resolver call just returned took:
                      \* "skip", "empty", "nomatch", "bound"; else "none"
    last_role_key,    \* history: last state-changing key, 0 if none yet
    unconsumed,       \* history: the last two of the clicks registered since
                      \* the last consuming resolver call returned
    issued,           \* history: every label _generate_role_name returned
    minted,           \* history: id -> the role under which its label was made
    label_out,        \* the last get_label_and_color call: <<body_id,
                      \* role_text, color>>, <<>> before the first
    main_pc,          \* main(): the statement main.py is at
    opt,              \* main(): which of the two input options are non-empty
    made,             \* main(): the objects constructed so far
    camera,           \* sl.Camera: "unopened", "open", "closed"
    windows,          \* the OpenCV windows that exist
    binding_help_requested,  \* BodyViewer2D.binding_help_requested
    key_wait,         \* main(): key_wait
    grab_ok,          \* what grab() returned in this cycle, "none" before
    reported,         \* the error message main() printed, "none" if none
    teardown,         \* history: the cleanup statements of main() have run
    script,           \* body_tracking.py: the binding locals of its main()
    clicks,           \* history: number of register_click calls
    click_role,       \* history: current_role when the last click arrived,
                      \* "None" once the frame after its use is drawn
    shown_ids,        \* history: the ids of the frame on display
    seen_ids          \* history: shown_ids when the last click arrived, {}
                      \* once the frame after its use is drawn

vars == << image_scale, role_map, current_role, click_pending, click_pos,
           surgeon_count, assistant_count, nurse_count, pc, bodies,
           best_body, op, last_role_key, unconsumed, issued, minted,
           label_out, main_pc, opt, made, camera, windows,
           binding_help_requested, key_wait, grab_ok, reported, teardown,
           script, clicks, click_role, shown_ids, seen_ids >>

mgr_vars == << role_map, current_role, click_pending, click_pos,
               surgeon_count, assistant_count, nurse_count >>

hist_vars == << last_role_key, unconsumed, issued >>

\* the locals of main() in main.py and what it has acquired
main_vars == << main_pc, opt, made, camera, windows, binding_help_requested,
               key_wait, grab_ok, reported, teardown >>

\* history kept of the clicks
click_hist == << clicks, click_role, shown_ids, seen_ids >>

\* what the state-changing methods of RoleBindingManager leave alone
outer_vars == << label_out, main_vars, script, click_hist >>

NoFrame == Frame(<<>>)
EmptyMap == [i \in {} |-> <<>>]

\* body_tracking.py: the binding locals of main() as first assigned
ScriptInit ==
    [role_map |-> EmptyMap, current_role |-> "None", click_pending |-> FALSE,
     click_pos |-> <<0, 0>>, surgeon_count |-> 0, assistant_count |-> 0,
     nurse_count |-> 0]

\* main() of main.py is in its loop: tracker, manager and viewer exist
InLoop ==
    /\ main_pc = "grab"
    /\ opt = [input_svo_file |-> <<>>, ip_address |-> <<>>]
    /\ made = {"zed_tracker", "binding_manager", "viewer"}
    /\ camera = "open"
    /\ windows = {"main"}
    /\ binding_help_requested = FALSE
    /\ key_wait = 10
    /\ grab_ok = "none"
    /\ reported = "none"
    /\ teardown = FALSE

\* no click has been registered
NoClickYet ==
    clicks = 0 /\ click_role = "None" /\ shown_ids = {} /\ seen_ids = {}

\* RoleBindingManager(image_scale) as constructed, no call made yet
Constructed ==
    /\ image_scale = UnitScale
    /\ role_map = EmptyMap
    /\ current_role = "None"
    /\ click_pending = FALSE
    /\ click_pos = <<0, 0>>
    /\ surgeon_count = 0
    /\ assistant_count = 0
    /\ nurse_count = 0
    /\ pc = "idle"
    /\ bodies = NoFrame
    /\ best_body = 0
    /\ op = "none"
    /\ last_role_key = 0
    /\ unconsumed = <<>>
    /\ issued = {}
    /\ minted = EmptyMap
    /\ label_out = <<>>

Init ==
    /\ Constructed
    /\ InLoop
    /\ script = ScriptInit
    /\ NoClickYet

\* ------------------------------------------------- role selection by key
\* variant: a key that names no role cancels the selection
RoleFromKey_OtherKeyCancels(key, role) ==
    IF key = KEY_S THEN "Surgeon"
    ELSE IF key = KEY_A THEN "Assistant"
    ELSE IF key = KEY_N THEN "Nurse"
    ELSE "None"

\* current_role after set_current_role_from_key(key)
RoleFromKey(key, role) ==
    IF key = KEY_S THEN "Surgeon"
    ELSE IF key = KEY_A THEN "Assistant"
    ELSE IF key = KEY_N THEN "Nurse"
    ELSE IF key = KEY_ESC THEN "None"
    ELSE role

set_current_role_from_key(key) ==
    /\ pc = "idle"
    /\ current_role' = RoleFromKey(key, current_role)
    /\ op' = "none"
    /\ last_role_key' = IF key \in RoleKeys THEN key ELSE last_role_key
    /\ UNCHANGED << image_scale, role_map, click_pending, click_pos,
                    surgeon_count, assistant_count, nurse_count, pc, bodies,
                    best_body, unconsumed, issued, minted >>

\* ---------------------------------------------------------- click queue
\* variant: a click that is already pending is not overwritten
ClickAfterRegister_KeepFirst(x, y, pos, pending) ==
    IF pending THEN << pos, TRUE >> ELSE << <<x, y>>, TRUE >>

\* <<click_pos, click_pending>> after register_click(x, y)
ClickAfterRegister(x, y, pos, pending) == << <<x, y>>, TRUE >>

register_click(x, y) ==
    /\ pc = "idle"
    /\ click_pos' = ClickAfterRegister(x, y, click_pos, click_pending)[1]
    /\ click_pending' = ClickAfterRegister(x, y, click_pos, click_pending)[2]
    /\ op' = "none"
    /\ unconsumed' = IF unconsumed = <<>> THEN << <<x, y>> >>
                      ELSE << unconsumed[Len(unconsumed)], <<x, y>> >>
    /\ UNCHANGED << image_scale, role_map, current_role, surgeon_count,
                    assistant_count, nurse_count, pc, bodies, best_body,
                    last_role_key, issued, minted >>

\* ------------------------------------------------------ identity registry
\* variant: the Assistant branch numbers from, and advances, surgeon_count
_generate_role_name_WrongCounter(role, sc, ac, nc) ==
    IF role = "Surgeon"
    THEN [name |-> NumberedName(SurgeonStr, sc + 1),
          surgeon_count |-> sc + 1, assistant_count |-> ac, nurse_count |-> nc]
    ELSE IF role = "Assistant"
    THEN [name |-> NumberedName(AssistantStr, sc + 1),
          surgeon_count |-> sc + 1, assistant_count |-> ac, nurse_count |-> nc]
    ELSE IF role = "Nurse"
    THEN [name |-> NumberedName(NurseStr, nc + 1),
          surgeon_count |-> sc, assistant_count |-> ac, nurse_count |-> nc + 1]
    ELSE [name |-> UnknownStr,
          surgeon_count |-> sc, assistant_count |-> ac, nurse_count |-> nc]

\* variant: the incremented counter is not stored
_generate_role_name_NoStore(role, sc, ac, nc) ==
    IF role = "Surgeon"
    THEN [name |-> NumberedName(SurgeonStr, sc + 1),
          surgeon_count |-> sc, assistant_count |-> ac, nurse_count |-> nc]
    ELSE IF role = "Assistant"
    THEN [name |-> NumberedName(AssistantStr, ac + 1),
          surgeon_count |-> sc, assistant_count |-> ac, nurse_count |-> nc]
    ELSE IF role = "Nurse"
    THEN [name |-> NumberedName(NurseStr, nc + 1),
          surgeon_count |-> sc, assistant_count |-> ac, nurse_count |-> nc]
    ELSE [name |-> UnknownStr,
          surgeon_count |-> sc, assistant_count |-> ac, nurse_count |-> nc]

\* _generate_role_name: the name returned and the three counters afterwards
_generate_role_name(role, sc, ac, nc) ==
    IF role = "Surgeon"
    THEN [name |-> NumberedName(SurgeonStr, sc + 1),
          surgeon_count |-> sc + 1, assistant_count |-> ac, nurse_count |-> nc]
    ELSE IF role = "Assistant"
    THEN [name |-> NumberedName(AssistantStr, ac + 1),
          surgeon_count |-> sc, assistant_count |-> ac + 1, nurse_count |-> nc]
    ELSE IF role = "Nurse"
    THEN [name |-> NumberedName(NurseStr, nc + 1),
          surgeon_count |-> sc, assistant_count |-> ac, nurse_count |-> nc + 1]
    ELSE [name |-> UnknownStr,
          surgeon_count |-> sc, assistant_count |-> ac, nurse_count |-> nc]

\* variant: the map is rebuilt with the new entry alone
Upsert_Fresh(map, bid, assigned_role) == [i \in {bid} |-> assigned_role]

\* role_map[bid] = assigned_role
Upsert(map, bid, assigned_role) ==
    [i \in DOMAIN map \cup {bid} |-> IF i = bid THEN assigned_role ELSE map[i]]

\* --------------------------------------------------- nearest-body resolver
\* int(x) of the quotient a / b, b > 0: truncation toward zero
Trunc(a, b) == IF a >= 0 THEN a \div b ELSE -((-a) \div b)

\* int(kp[k] * image_scale[k])
ToDisplay(c, scale) == Trunc(c.v * scale[1], KpDen * scale[2])

\* body.keypoint_2d is None or len(body.keypoint_2d) == 0
NoKeypoint(body) == body.keypoint_2d.is_none \/ Len(body.keypoint_2d.kps) = 0

\* variant: only the x coordinate is tested
IsNanKp_OnlyX(kp) == kp[1].nan

\* np.isnan(kp[0]) or np.isnan(kp[1])
IsNanKp(kp) == kp[1].nan \/ kp[2].nan

\* dist2 of a body with a usable reference keypoint from the click (cx, cy)
Dist2(body, scale, cx, cy) ==
    LET kp == body.keypoint_2d.kps[1]
        dx == ToDisplay(kp[1], scale[1]) - cx
        dy == ToDisplay(kp[2], scale[2]) - cy
    IN  dx * dx + dy * dy

\* variant: a body at the same distance replaces the best one
Closer_OrEqual(dist2, best_dist2) == best_dist2 = -1 \/ dist2 <= best_dist2

\* best_dist2 is None (written -1) or dist2 < best_dist2
Closer(dist2, best_dist2) == best_dist2 = -1 \/ dist2 < best_dist2

RECURSIVE NearestLoop(_, _, _, _, _, _, _)
\* the for loop over bodies.body_list from index i on; the result is the
\* index of best_body after the loop, 0 when best_body is None
NearestLoop(bl, i, scale, cx, cy, best, best_dist2) ==
    IF i > Len(bl) THEN best
    ELSE IF NoKeypoint(bl[i]) THEN NearestLoop(bl, i + 1, scale, cx, cy, best, best_dist2)
    ELSE IF IsNanKp(bl[i].keypoint_2d.kps[1])
    THEN NearestLoop(bl, i + 1, scale, cx, cy, best, best_dist2)
    ELSE LET dist2 == Dist2(bl[i], scale, cx, cy)
         IN  IF Closer(dist2, best_dist2)
             THEN NearestLoop(bl, i + 1, scale, cx, cy, i, dist2)
             ELSE NearestLoop(bl, i + 1, scale, cx, cy, best, best_dist2)

\* variant: the role is the one selected when the click arrived
Mgr_RoleAtClick ==
    [role_map |-> role_map, current_role |-> click_role,
     click_pending |-> click_pending, click_pos |-> click_pos,
     surgeon_count |-> surgeon_count, assistant_count |-> assistant_count,
     nurse_count |-> nurse_count, best_body |-> 0, op |-> "skip",
     assigned_role |-> <<>>]

\* the manager fields try_assign_from_click reads and writes, with the
\* branch taken, the index of best_body and the label assigned
Mgr ==
    [role_map |-> role_map, current_role |-> current_role,
     click_pending |-> click_pending, click_pos |-> click_pos,
     surgeon_count |-> surgeon_count, assistant_count |-> assistant_count,
     nurse_count |-> nurse_count, best_body |-> 0, op |-> "skip",
     assigned_role |-> <<>>]

\* variant: the role is not tested
NothingToDo_IgnoresRole(pending, role) == ~pending

\* variant: the pending flag is not tested
NothingToDo_IgnoresClick(pending, role) == role = "None"

\* not self.click_pending or self.current_role is None
NothingToDo(pending, role) == ~pending \/ role = "None"

\* variant: the first return drops the pending click
EarlyReturn_ClearsClick(s) == [s EXCEPT !.click_pending = FALSE, !.op = "skip"]

\* first return: nothing is touched
EarlyReturn(s) == [s EXCEPT !.op = "skip"]

\* variant: the click survives a frame without bodies
NoBodiesReturn_KeepsClick(s) == [s EXCEPT !.op = "empty"]

\* second return: bodies is None or the body list is empty
NoBodiesReturn(s) == [s EXCEPT !.click_pending = FALSE, !.op = "empty"]

\* variant: the texts are compared for equality
Contains_Equal(sub, text) == sub = text

\* sub in text
Contains(sub, text) ==
    \E k \in 0..(Len(text) - Len(sub)) : SubSeq(text, k + 1, k + Len(sub)) = sub

\* variant: rebinding an id first gives back the number of its old label
Assign_ReuseNumber(s, bl, best) ==
    LET old == IF bl[best].id \in DOMAIN s.role_map
               THEN s.role_map[bl[best].id] ELSE <<>>
        sc == s.surgeon_count - (IF Contains(SurgeonStr, old) THEN 1 ELSE 0)
        ac == s.assistant_count - (IF Contains(AssistantStr, old) THEN 1 ELSE 0)
        nc == s.nurse_count - (IF Contains(NurseStr, old) THEN 1 ELSE 0)
        g == _generate_role_name(s.current_role, sc, ac, nc)
    IN  [s EXCEPT !.role_map = Upsert(s.role_map, bl[best].id, g.name),
                  !.surgeon_count = g.surgeon_count,
                  !.assistant_count = g.assistant_count,
                  !.nurse_count = g.nurse_count,
                  !.best_body = best, !.op = "bound",
                  !.assigned_role = g.name]

\* best_body is not None: mint the label and store it under the body's id
Assign(s, bl, best) ==
    LET g == _generate_role_name(s.current_role, s.surgeon_count,
                                 s.assistant_count, s.nurse_count)
    IN  [s EXCEPT !.role_map = Upsert(s.role_map, bl[best].id, g.name),
                  !.surgeon_count = g.surgeon_count,
                  !.assistant_count = g.assistant_count,
                  !.nurse_count = g.nurse_count,
                  !.best_body = best, !.op = "bound",
                  !.assigned_role = g.name]

\* best_body is None
NoMatch(s) == [s EXCEPT !.op = "nomatch"]

\* variant: the final reset is missing
ResetClick_Missing(s) == s

\* reset of the click flag that ends the call
ResetClick(s) == [s EXCEPT !.click_pending = FALSE]

\* try_assign_from_click(frame) run on the manager fields s
ResolveResult(s, frame, scale) ==
    IF NothingToDo(s.click_pending, s.current_role) THEN EarlyReturn(s)
    ELSE IF frame.is_none \/ Len(frame.body_list) = 0 THEN NoBodiesReturn(s)
    ELSE LET best == NearestLoop(frame.body_list, 1, scale,
                                 s.click_pos[1], s.click_pos[2], 0, -1)
         IN  IF best # 0
             THEN ResetClick(Assign(s, frame.body_list, best))
             ELSE ResetClick(NoMatch(s))

Assigned == surgeon_count + assistant_count + nurse_count

\* main.py hands the frame of zed_tracker.retrieve() to the resolver
try_assign_from_click(frame) ==
    /\ \E r \in {ResolveResult(Mgr, frame, image_scale)} :
           /\ role_map' = r.role_map
           /\ click_pending' = r.click_pending
           /\ surgeon_count' = r.surgeon_count
           /\ assistant_count' = r.assistant_count
           /\ nurse_count' = r.nurse_count
           /\ best_body' = r.best_body
           /\ op' = r.op
           /\ issued' = IF r.op = "bound" THEN issued \cup {r.assigned_role}
                        ELSE issued
           /\ minted' = IF r.op = "bound"
                        THEN Upsert(minted, frame.body_list[r.best_body].id,
                                    current_role)
                        ELSE minted
    /\ bodies' = frame
    /\ pc' = "returned"
    /\ UNCHANGED << image_scale, current_role, click_pos, last_role_key,
                    unconsumed >>

\* the resolver call of one cycle of a run
Resolve ==
    /\ pc = "idle"
    /\ Assigned < MaxAssign
    /\ \E frame \in RunFrames : try_assign_from_click(frame)
    /\ UNCHANGED outer_vars

\* ---------------------------------------------------------- presentation
RED == <<0, 0, 255>>
BLUE == <<255, 0, 0>>
GREEN == <<0, 255, 0>>
YELLOW == <<0, 255, 255>>

\* role_color[role]
role_color(role) ==
    CASE role = "Surgeon" -> RED
      [] role = "Assistant" -> BLUE
      [] role = "Nurse" -> GREEN

\* f"ID:{body_id}"
IdStr(body_id) == <<"I", "D", ":">> \o IntStr(body_id)

\* <<role_text, color>> returned by get_label_and_color(body_id)
LabelAndColor(map, body_id) ==
    LET role_text == IF body_id \in DOMAIN map THEN map[body_id] ELSE IdStr(body_id)
    IN  IF Contains(SurgeonStr, role_text) THEN <<role_text, role_color("Surgeon")>>
        ELSE IF Contains(AssistantStr, role_text) THEN <<role_text, role_color("Assistant")>>
        ELSE IF Contains(NurseStr, role_text) THEN <<role_text, role_color("Nurse")>>
        ELSE <<role_text, YELLOW>>

\* get_label_and_color(body_id): no field of the manager is written
get_label_and_color(body_id) ==
    /\ label_out' = <<body_id>> \o LabelAndColor(role_map, body_id)
    /\ UNCHANGED << image_scale, mgr_vars, pc, bodies, best_body, op,
                    hist_vars, minted, main_vars, script, click_hist >>

\* viewer.render_frame(image, bodies, num_people): the label and colour of
\* every body with a usable keypoint are looked up (LabelAndColor) and
\* drawn; the manager is only read.  The frame and the locals of the cycle
\* are then dropped.
render_frame ==
    /\ pc = "returned"
    /\ pc' = "idle"
    /\ bodies' = NoFrame
    /\ best_body' = 0
    /\ op' = "none"
    /\ unconsumed' = IF op = "skip" THEN unconsumed ELSE <<>>
    /\ UNCHANGED << image_scale, mgr_vars, last_role_key, issued, minted >>

\* a key reaches the manager
KeyEvent == \E key \in Keys : set_current_role_from_key(key) /\ UNCHANGED outer_vars

\* a click outside the help button reaches the manager
ClickEvent ==
    \E p \in ClickPoints : register_click(p[1], p[2]) /\ UNCHANGED outer_vars

\* the frame of the cycle is drawn
Render == render_frame /\ UNCHANGED outer_vars

Next ==
    \/ KeyEvent
    \/ ClickEvent
    \/ Resolve
    \/ Render

Spec == Init /\ [][Next]_vars

\* ------------------------------------- one resolver call on any frame
\* manager states a run reaches: nothing bound; Surgeon_1 on id 1; and
\* Surgeon_1, Surgeon_2 on ids 1, 2 with id 1 rebound to Assistant_1
PriorBindings ==
    { [role_map |-> EmptyMap, counts |-> <<0, 0, 0>>, issued |-> {},
       minted |-> EmptyMap],
      [role_map |-> (1 :> NumberedName(SurgeonStr, 1)),
       counts |-> <<1, 0, 0>>,
       issued |-> {NumberedName(SurgeonStr, 1)},
       minted |-> (1 :> "Surgeon")],
      [role_map |-> (1 :> NumberedName(AssistantStr, 1)
                       @@ 2 :> NumberedName(SurgeonStr, 2)),
       counts |-> <<2, 1, 0>>,
       issued |-> {NumberedName(SurgeonStr, 1), NumberedName(SurgeonStr, 2),
                   NumberedName(AssistantStr, 1)},
       minted |-> (1 :> "Assistant" @@ 2 :> "Surgeon")] }

\* the state in which try_assign_from_click is entered: any scale factors,
\* a click pending or not, a role selected or not; main() and the script
\* are as in Init, and no history of the clicks is kept
ResolverInit ==
    /\ image_scale \in ImageScales
    /\ \E b \in PriorBindings :
         /\ role_map = b.role_map
         /\ surgeon_count = b.counts[1]
         /\ assistant_count = b.counts[2]
         /\ nurse_count = b.counts[3]
         /\ issued = b.issued
         /\ minted = b.minted
    /\ \E k \in {0} \cup RoleKeys :
         /\ last_role_key = k
         /\ current_role = RoleFromKey(k, "None")
    /\ \/ click_pending = FALSE /\ click_pos = <<0, 0>> /\ unconsumed = <<>>
       \/ \E p \in ClickPoints :
            click_pending = TRUE /\ click_pos = p /\ unconsumed = <<p>>
    /\ pc = "entry"
    /\ bodies = NoFrame
    /\ best_body = 0
    /\ op = "none"
    /\ label_out = <<>>
    /\ InLoop
    /\ script = ScriptInit
    /\ NoClickYet

\* one call, on any frame
ResolveOnce ==
    /\ pc = "entry"
    /\ \E frame \in Frames : try_assign_from_click(frame)
    /\ UNCHANGED outer_vars

ResolverNext ==
    \/ ResolveOnce
    \/ Render

ResolverSpec == ResolverInit /\ [][ResolverNext]_vars

\* ------------------------------------ label lookups after a resolver call
\* ids a lookup is made for: the tracker's, and one of two digits
LookupIds == BodyIds \cup {MaxId + 10}

\* a lookup as render_frame makes one, for any id
Lookup ==
    /\ pc = "returned"
    /\ \E body_id \in LookupIds : get_label_and_color(body_id)

ViewerNext ==
    \/ ResolveOnce
    \/ Lookup
    \/ Render

ViewerSpec == ResolverInit /\ [][ViewerNext]_vars

\* --------------------------------------------- a run with counted clicks
MaxClicks == 2      \* calls of register_click in one run

\* register_click is called, and the call is counted
CountedClick ==
    /\ clicks < MaxClicks
    /\ \E p \in ClickPoints : register_click(p[1], p[2])
    /\ clicks' = clicks + 1
    /\ UNCHANGED << label_out, main_vars, script, click_role, shown_ids,
                    seen_ids >>

\* the resolver call of one cycle, on any frame
AnyFrame ==
    /\ pc = "idle"
    /\ \E frame \in RunFrames : try_assign_from_click(frame)
    /\ UNCHANGED outer_vars

ClickNext ==
    \/ KeyEvent
    \/ CountedClick
    \/ AnyFrame
    \/ Render

ClickSpec == Init /\ [][ClickNext]_vars

\* ------------------------------------------------------ main() of main.py
\* the command lines tried: no input option, a replay file, or both a
\* replay file and a stream address
OptCases ==
    { [input_svo_file |-> <<>>, ip_address |-> <<>>],
      [input_svo_file |-> <<"f">>, ip_address |-> <<>>],
      [input_svo_file |-> <<"f">>, ip_address |-> <<"a">>] }

\* frames as retrieve() returns them: sl.Bodies, never None; nobody, or one
\* person in view whose reference keypoint is at (2.5, 1.5)
MainFrames ==
    { Frame(<<>>) } \cup
    { Frame(<< Body(i, KpArray(<< <<Num(5), Num(3)>> >>)) >>) : i \in BodyIds }

\* where the mouse is pressed: on the image, or on the help button
MousePoints == { <<2, 1>>, <<20, 70>> }

MainInit ==
    /\ Constructed
    /\ main_pc = "args"
    /\ opt \in OptCases
    /\ made = {}
    /\ camera = "unopened"
    /\ windows = {}
    /\ binding_help_requested = FALSE
    /\ key_wait = 10
    /\ grab_ok = "none"
    /\ reported = "none"
    /\ teardown = FALSE
    /\ script = ScriptInit
    /\ NoClickYet

\* what a step of main() outside its loop leaves alone
loop_state == << image_scale, mgr_vars, pc, bodies, best_body, op, hist_vars,
                minted, label_out, script, click_hist >>

\* len(opt.input_svo_file) > 0 and len(opt.ip_address) > 0
BothGiven(o) == Len(o.input_svo_file) > 0 /\ Len(o.ip_address) > 0

\* the safety test of lines 28-31 on the options: message and return, or
\* go on
check_options ==
    /\ main_pc = "args"
    /\ IF BothGiven(opt)
       THEN reported' = "both_inputs" /\ main_pc' = "done"
       ELSE reported' = reported /\ main_pc' = "open"
    /\ UNCHANGED << opt, made, camera, windows, binding_help_requested,
                    key_wait, grab_ok, teardown, loop_state >>

\* variant: the RuntimeError is printed and main() goes on
AfterOpen_GoesOn(ok) == "setup"

\* where main() is after ZEDBodyTracker(init_params) opened or raised
AfterOpen(ok) == IF ok THEN "setup" ELSE "done"

\* ZEDBodyTracker(init_params): zed.open succeeds, or RuntimeError is
\* raised, printed by main() and main() returns
open_tracker(ok) ==
    /\ main_pc = "open"
    /\ camera' = IF ok THEN "open" ELSE camera
    /\ made' = IF ok THEN made \cup {"zed_tracker"} ELSE made
    /\ reported' = IF ok THEN reported ELSE "open_error"
    /\ main_pc' = AfterOpen(ok)
    /\ UNCHANGED << opt, windows, binding_help_requested, key_wait, grab_ok,
                    teardown, loop_state >>

\* RoleBindingManager(...), BodyViewer2D(...) with its window, key_wait = 10
setup ==
    /\ main_pc = "setup"
    /\ made' = made \cup {"binding_manager", "viewer"}
    /\ windows' = windows \cup {"main"}
    /\ key_wait' = 10
    /\ main_pc' = "grab"
    /\ UNCHANGED << opt, camera, binding_help_requested, grab_ok, reported,
                    teardown, loop_state >>

\* variant: a failed grab is not skipped
AfterGrab_NoContinue(ok) == "retrieve"

\* variant: after a failed grab the keys are still polled
AfterGrab_PollsKeys(ok) == IF ok THEN "retrieve" ELSE "waitKey"

\* if not zed_tracker.grab(): continue
AfterGrab(ok) == IF ok THEN "retrieve" ELSE "grab"

grab(ok) ==
    /\ main_pc = "grab"
    /\ grab_ok' = IF ok THEN "ok" ELSE "failed"
    /\ main_pc' = AfterGrab(ok)
    /\ UNCHANGED << opt, made, camera, windows, binding_help_requested,
                    key_wait, reported, teardown, loop_state >>

\* image, bodies = zed_tracker.retrieve() and
\* binding_manager.try_assign_from_click(bodies)
retrieve_and_assign ==
    /\ main_pc = "retrieve"
    /\ \E frame \in MainFrames : try_assign_from_click(frame)
    /\ main_pc' = "render"
    /\ UNCHANGED << opt, made, camera, windows, binding_help_requested,
                    key_wait, grab_ok, reported, teardown, label_out, script,
                    click_hist >>

\* viewer.render_frame(...): the labels are drawn, the help window is shown
\* if it was asked for, the image is shown
show_frame ==
    /\ main_pc = "render"
    /\ render_frame
    /\ windows' = IF binding_help_requested THEN windows \cup {"help"} ELSE windows
    /\ binding_help_requested' = FALSE
    /\ main_pc' = "waitKey"
    /\ click_role' = IF click_pending THEN click_role ELSE "None"
    /\ seen_ids' = IF click_pending THEN seen_ids ELSE {}
    /\ shown_ids' = { bodies.body_list[i].id : i \in 1..Len(bodies.body_list) }
    /\ UNCHANGED << opt, made, camera, key_wait, grab_ok, reported, teardown,
                    label_out, script, clicks >>

\* the point is inside the "Binding Help" button
InHelpButton(x, y) == 20 <= x /\ x <= 20 + 170 /\ 70 <= y /\ y <= 70 + 40

\* _mouse_callback(EVENT_LBUTTONDOWN, x, y), dispatched inside cv2.waitKey
_mouse_callback(x, y) ==
    /\ main_pc = "waitKey"
    /\ IF InHelpButton(x, y)
       THEN /\ binding_help_requested' = TRUE
            /\ UNCHANGED loop_state
       ELSE /\ clicks < MaxClicks
            /\ register_click(x, y)
            /\ clicks' = clicks + 1
            /\ click_role' = current_role
            /\ seen_ids' = shown_ids
            /\ UNCHANGED << binding_help_requested, label_out, script, shown_ids >>
    /\ UNCHANGED << main_pc, opt, made, camera, windows, key_wait, grab_ok,
                    reported, teardown >>

\* key = cv2.waitKey(key_wait) & 0xFF: with key_wait = 0 the call returns
\* only when a key is pressed, otherwise also 255 after the wait
Polled == IF key_wait > 0 THEN Keys ELSE Keys \ {KEY_NONE}

\* key_wait after the pause / resume test on key
AfterPauseKey(key, wait) == IF key = KEY_M THEN (IF wait > 0 THEN 0 ELSE 10) ELSE wait

\* lines 88-106: 'q' leaves the loop; 'm' pauses or resumes; every key but
\* 'q' is handed to set_current_role_from_key
handle_key(key) ==
    /\ main_pc = "waitKey"
    /\ key \in Polled
    /\ IF key = KEY_Q
       THEN /\ main_pc' = "cleanup"
            /\ UNCHANGED << key_wait, image_scale, mgr_vars, pc, bodies,
                            best_body, op, hist_vars, minted >>
       ELSE /\ key_wait' = AfterPauseKey(key, key_wait)
            /\ set_current_role_from_key(key)
            /\ main_pc' = "grab"
    /\ UNCHANGED << opt, made, camera, windows, binding_help_requested,
                    grab_ok, reported, teardown, label_out, script, click_hist >>

\* variant: the windows are not destroyed
cleanup_KeepsWindows ==
    /\ main_pc = "cleanup"
    /\ camera' = "closed"
    /\ teardown' = TRUE
    /\ main_pc' = "done"
    /\ UNCHANGED << opt, made, windows, binding_help_requested, key_wait,
                    grab_ok, reported, loop_state >>

\* zed_tracker.close() and cv2.destroyAllWindows(), then main() returns
cleanup ==
    /\ main_pc = "cleanup"
    /\ camera' = "closed"
    /\ windows' = {}
    /\ teardown' = TRUE
    /\ main_pc' = "done"
    /\ UNCHANGED << opt, made, binding_help_requested, key_wait, grab_ok,
                    reported, loop_state >>

MainNext ==
    \/ check_options
    \/ \E ok \in BOOLEAN : open_tracker(ok)
    \/ setup
    \/ \E ok \in BOOLEAN : grab(ok)
    \/ retrieve_and_assign
    \/ show_frame
    \/ \E p \in MousePoints : _mouse_callback(p[1], p[2])
    \/ \E key \in Keys : handle_key(key)
    \/ cleanup

MainSpec == MainInit /\ [][MainNext]_vars

\* ------------------------------- body_tracking.py beside RoleBindingManager
\* mouse_callback(EVENT_LBUTTONDOWN, x, y) on the binding locals s
ScriptClick(s, x, y) ==
    IF InHelpButton(x, y) THEN s
    ELSE [s EXCEPT !.click_pos = <<x, y>>, !.click_pending = TRUE]

\* the role selection of lines 455-466 on key
ScriptKey(s, key) ==
    IF key = KEY_S THEN [s EXCEPT !.current_role = "Surgeon"]
    ELSE IF key = KEY_A THEN [s EXCEPT !.current_role = "Assistant"]
    ELSE IF key = KEY_N THEN [s EXCEPT !.current_role = "Nurse"]
    ELSE IF key = KEY_ESC THEN [s EXCEPT !.current_role = "None"]
    ELSE s

\* lines 382-400: the index of best_body after the loop, 0 for None; the
\* loop is the one of try_assign_from_click, statement for statement
ScriptNearest(bl, scale, cx, cy) == NearestLoop(bl, 1, scale, cx, cy, 0, -1)

\* lines 406-420: the counter of current_role is incremented, the label is
\* made and stored under bid
ScriptAssign(s, bid) ==
    IF s.current_role = "Surgeon"
    THEN [s EXCEPT !.surgeon_count = @ + 1,
                   !.role_map = Upsert(@, bid, NumberedName(SurgeonStr, s.surgeon_count + 1))]
    ELSE IF s.current_role = "Assistant"
    THEN [s EXCEPT !.assistant_count = @ + 1,
                   !.role_map = Upsert(@, bid, NumberedName(AssistantStr, s.assistant_count + 1))]
    ELSE IF s.current_role = "Nurse"
    THEN [s EXCEPT !.nurse_count = @ + 1,
                   !.role_map = Upsert(@, bid, NumberedName(NurseStr, s.nurse_count + 1))]
    ELSE \* assigned_role = current_role, which names no category
         [s EXCEPT !.role_map = Upsert(@, bid, <<>>)]

\* lines 381-427: the binding block of one cycle on the frame retrieved
ScriptBind(s, frame, scale) ==
    IF s.click_pending /\ s.current_role # "None" /\ Len(frame.body_list) > 0
    THEN LET best == ScriptNearest(frame.body_list, scale,
                                   s.click_pos[1], s.click_pos[2])
         IN  IF best # 0
             THEN [ScriptAssign(s, frame.body_list[best].id)
                     EXCEPT !.click_pending = FALSE]
             ELSE [s EXCEPT !.click_pending = FALSE]
    ELSE s

\* number of assignments the script has made
ScriptAssigned == script.surgeon_count + script.assistant_count + script.nurse_count

\* the same click reaches both programs
PairClick ==
    /\ \E p \in ClickPoints :
         /\ register_click(p[1], p[2])
         /\ script' = ScriptClick(script, p[1], p[2])
    /\ UNCHANGED << label_out, main_vars, click_hist >>

\* the same key is polled by both programs ('q' would end both)
PairKey ==
    /\ \E key \in Keys \ {KEY_Q} :
         /\ set_current_role_from_key(key)
         /\ script' = ScriptKey(script, key)
    /\ UNCHANGED << label_out, main_vars, click_hist >>

\* frames as retrieve_bodies fills them: sl.Bodies, never None
PairFrames == RunFrames \ { NoneFrame }

\* both programs retrieve the same frame and run their binding step
PairFrame ==
    /\ pc = "idle"
    /\ Assigned < MaxAssign /\ ScriptAssigned < MaxAssign
    /\ \E frame \in PairFrames :
         /\ try_assign_from_click(frame)
         /\ script' = ScriptBind(script, frame, image_scale)
    /\ UNCHANGED << label_out, main_vars, click_hist >>

PairNext ==
    \/ PairClick
    \/ PairKey
    \/ PairFrame
    \/ Render

PairSpec == Init /\ [][PairNext]_vars

\* ================================================================ claims
Range(f) == { f[i] : i \in DOMAIN f }
Counters == << surgeon_count, assistant_count, nurse_count >>

\* a step that is a whole call of try_assign_from_click
ResolverStep == pc # "returned" /\ pc' = "returned"

\* the role each state-changing key names
RoleNamedBy(key) ==
    CASE key = 0 -> "None"
      [] key = 115 -> "Surgeon"
      [] key = 97 -> "Assistant"
      [] key = 110 -> "Nurse"
      [] key = 27 -> "None"

\* C1: at every point current_role is the role named by the most recent
\* state-changing key ('s', 'a', 'n', ESC), none before the first one; and
\* a step that leaves that key the same (another key, register_click,
\* try_assign_from_click, rendering) leaves current_role unchanged.
C1_RoleIsLastRoleKey ==
    /\ [](current_role = RoleNamedBy(last_role_key))
    /\ [][last_role_key' = last_role_key => current_role' = current_role]_vars

\* C1 witness: a binding has just been made and the role chosen by 'a' is
\* still selected.
C1_Witness ==
    /\ pc = "returned" /\ op = "bound"
    /\ last_role_key = KEY_A /\ current_role = "Assistant"

\* C3 as stated: after any call of try_assign_from_click click_pending is
\* false, whatever the state it was called in.
C3_Original == pc = "returned" => ~click_pending

\* C3 amended: after any call of try_assign_from_click made while a role is
\* selected, click_pending is false, whether or not an assignment occurred.
C3_ClearedWhenRoleSelected ==
    (pc = "returned" /\ current_role # "None") => ~click_pending

\* C3 witness: a call that found no valid body consumed a pending click.
C3_Witness ==
    /\ pc = "returned" /\ op = "nomatch"
    /\ unconsumed # <<>> /\ ~click_pending

\* C4: a call of try_assign_from_click made while no click is pending or no
\* role is selected changes none of click_pending, click_pos, role_map and
\* the counters; and a pending click stays pending through every step for
\* as long as no role is selected.
C4_NoOpWithoutClickOrRole ==
    /\ [][(ResolverStep /\ (~click_pending \/ current_role = "None"))
            => UNCHANGED << click_pending, click_pos, role_map, Counters >>]_vars
    /\ [][(click_pending /\ current_role = "None" /\ current_role' = "None")
            => click_pending']_vars

\* C4 witness: the resolver returned at once although a click is pending,
\* because no role is selected; the click is still pending.
C4_Witness ==
    /\ pc = "returned" /\ op = "skip"
    /\ click_pending /\ current_role = "None" /\ click_pos = <<2, 1>>
    /\ Len(bodies.body_list) > 0

\* ---- the resolver's contract, stated without the loop of the code
DisplayRange == -3 .. 4

\* the integer part of the fraction num / den (den > 0)
IntPart(num, den) ==
    CHOOSE q \in DisplayRange :
        IF num >= 0 THEN q * den <= num /\ num < (q + 1) * den
        ELSE (q - 1) * den < num /\ num <= q * den

\* the reference keypoint of a body is usable
ValidBody(b) ==
    /\ ~b.keypoint_2d.is_none
    /\ Len(b.keypoint_2d.kps) > 0
    /\ ~b.keypoint_2d.kps[1][1].nan
    /\ ~b.keypoint_2d.kps[1][2].nan

Square(a) == a * a

\* squared distance of the display position of a valid body from point p
SqDist(b, p) ==
    LET kp == b.keypoint_2d.kps[1]
        x == IntPart(kp[1].v * image_scale[1][1], KpDen * image_scale[1][2])
        y == IntPart(kp[2].v * image_scale[2][1], KpDen * image_scale[2][2])
    IN  Square(x - p[1]) + Square(y - p[2])

\* body i of body list bl is the first of the valid bodies nearest to p
FirstNearest(bl, i, p) ==
    /\ i \in 1..Len(bl)
    /\ ValidBody(bl[i])
    /\ \E d \in {SqDist(bl[i], p)} :
         \A j \in 1..Len(bl) \ {i} :
            ValidBody(bl[j]) =>
               \E e \in {SqDist(bl[j], p)} : d <= e /\ (e = d => i < j)

SomeValid(bl) == \E i \in 1..Len(bl) : ValidBody(bl[i])

\* role_map changed at key id and nowhere else
BoundExactly(id) ==
    /\ DOMAIN role_map' = DOMAIN role_map \cup {id}
    /\ id \in DOMAIN role_map => role_map'[id] # role_map[id]
    /\ \A k \in DOMAIN role_map \ {id} : role_map'[k] = role_map[k]

\* the entry of id in role_map is the same before and after the step
EntryUnchanged(id) ==
    /\ id \in DOMAIN role_map' <=> id \in DOMAIN role_map
    /\ id \in DOMAIN role_map => role_map'[id] = role_map[id]

\* the call consumes the pending click
Consuming == click_pending /\ current_role # "None"

\* C2: when the resolver consumes the pending click after several clicks
\* were registered, the body it binds is the first nearest one to the most
\* recently registered click, and the call leaves no click pending, so the
\* earlier clicks cause no assignment.
C2_LastClickWins ==
    [][(ResolverStep /\ Consuming /\ role_map' # role_map)
         => /\ unconsumed # <<>>
            /\ \E i \in 1..Len(bodies'.body_list) :
                 /\ FirstNearest(bodies'.body_list, i, unconsumed[Len(unconsumed)])
                 /\ BoundExactly(bodies'.body_list[i].id)
            /\ ~click_pending']_vars

\* C2 witness: two clicks at different places were registered before the
\* call; the body bound is not the one nearest to the first click.
C2_Witness ==
    /\ pc = "returned" /\ op = "bound"
    /\ Len(unconsumed) = 2 /\ unconsumed[1] # unconsumed[2]
    /\ ~FirstNearest(bodies.body_list, best_body, unconsumed[1])

\* C5: when the resolver runs with a click pending, a role selected and at
\* least one valid body, the body bound is the one whose scaled, truncated
\* reference point is nearest to click_pos, the first in the body list
\* among those at the minimum.
C5_NearestFirstBound ==
    [][(ResolverStep /\ Consuming /\ ~bodies'.is_none
          /\ SomeValid(bodies'.body_list))
         => \E i \in 1..Len(bodies'.body_list) :
              /\ FirstNearest(bodies'.body_list, i, click_pos)
              /\ BoundExactly(bodies'.body_list[i].id)]_vars

\* C5 witness: two valid bodies with different keypoints at the same minimal
\* distance from the click; the first in the list was bound.
C5_Witness ==
    /\ pc = "returned" /\ op = "bound" /\ best_body = 1
    /\ Len(bodies.body_list) = 2
    /\ ValidBody(bodies.body_list[2])
    /\ SqDist(bodies.body_list[1], click_pos) = SqDist(bodies.body_list[2], click_pos)
    /\ bodies.body_list[1].keypoint_2d # bodies.body_list[2].keypoint_2d

\* C6: a body whose reference keypoint is absent, empty or has a NaN
\* coordinate in the frame of a resolver call keeps its role_map entry
\* (bound or not) unchanged by that call.
C6_InvalidNeverBound ==
    [][ResolverStep
         => \A i \in 1..Len(bodies'.body_list) :
              ~ValidBody(bodies'.body_list[i])
                 => EntryUnchanged(bodies'.body_list[i].id)]_vars

\* C6 witness: the call bound the second body, at a distance from the
\* click, while the first body has a NaN coordinate.
C6_Witness ==
    /\ pc = "returned" /\ op = "bound" /\ best_body = 2
    /\ ~bodies.body_list[1].keypoint_2d.is_none
    /\ Len(bodies.body_list[1].keypoint_2d.kps) > 0
    /\ bodies.body_list[1].keypoint_2d.kps[1][2].nan
    /\ SqDist(bodies.body_list[2], click_pos) > 0

\* C7: when the resolver runs with a click pending and a role selected but
\* no body qualifies (no frame, empty body list, or only invalid bodies),
\* role_map and the counters are unchanged and click_pending is cleared.
C7_NoQualifyingBody ==
    [][(ResolverStep /\ Consuming
          /\ (bodies'.is_none \/ ~SomeValid(bodies'.body_list)))
         => /\ UNCHANGED << role_map, Counters >>
            /\ ~click_pending']_vars

\* C7 witness: a pending click was consumed by a call whose frame held two
\* bodies, both invalid.
C7_Witness ==
    /\ pc = "returned" /\ op = "nomatch"
    /\ Len(bodies.body_list) = 2 /\ unconsumed # <<>>
    /\ ~click_pending /\ current_role = "Nurse"

\* the counter of a role category
CountOf(role, counters) ==
    CASE role = "Surgeon" -> counters[1]
      [] role = "Assistant" -> counters[2]
      [] role = "Nurse" -> counters[3]

\* the id bound by the resolver call that has just returned
BoundId == bodies.body_list[best_body].id

\* the label "<role>_<n>"
LabelText(role, n) ==
    (CASE role = "Surgeon" -> <<"S", "u", "r", "g", "e", "o", "n", "_">>
       [] role = "Assistant" -> <<"A", "s", "s", "i", "s", "t", "a", "n", "t", "_">>
       [] role = "Nurse" -> <<"N", "u", "r", "s", "e", "_">>)
    \o <<(<<"0", "1", "2", "3", "4", "5", "6", "7", "8", "9">>)[n + 1]>>

\* C8: every counter starts at 0; a step that makes an assignment (changes
\* role_map) is a resolver call and raises the counter of current_role by
\* exactly 1, leaving the other two; every other step (key, click, lookup,
\* skipped or failed resolution) leaves the three counters unchanged.
C8_CountersStepByOne ==
    /\ Counters = <<0, 0, 0>>
    /\ [][IF role_map' # role_map
          THEN /\ ResolverStep
               /\ current_role \in Roles
               /\ \A c \in Roles :
                    CountOf(c, Counters') =
                      CountOf(c, Counters) + (IF c = current_role THEN 1 ELSE 0)
          ELSE Counters' = Counters]_vars

\* C8 witness: after assignments under two categories, a rebinding under
\* Assistant has left the Surgeon counter at 2.
C8_Witness ==
    /\ pc = "returned" /\ op = "bound"
    /\ Counters = <<2, 1, 0>> /\ current_role = "Assistant"
    /\ Cardinality(DOMAIN role_map) = 1

\* C9: the label stored by a successful assignment was never returned by
\* _generate_role_name before, and in every state no two ids of role_map
\* hold the same label.
C9_LabelsNeverRepeat ==
    /\ [][(ResolverStep /\ op' = "bound") => role_map'[BoundId'] \notin issued]_vars
    /\ [](\A i, j \in DOMAIN role_map : role_map[i] = role_map[j] => i = j)

\* C9 witness: three labels were issued, one of them overwritten, and two
\* ids are bound.
C9_Witness ==
    /\ pc = "returned" /\ op = "bound"
    /\ Cardinality(issued) = 3 /\ Cardinality(Range(role_map)) = 2
    /\ Cardinality(DOMAIN role_map) = 2

\* C10: a successful assignment that selects an id already in role_map
\* stores the newly minted label of current_role under it; the old label
\* is then held by no id and stays among the labels issued, which no later
\* assignment produces again, and no counter has decreased.
C10_RebindOverwrites ==
    [][(ResolverStep /\ op' = "bound" /\ BoundId' \in DOMAIN role_map)
         => /\ role_map'[BoundId'] =
                 LabelText(current_role, CountOf(current_role, Counters'))
            /\ role_map[BoundId'] \notin Range(role_map')
            /\ role_map[BoundId'] \in issued
            /\ issued \subseteq issued'
            /\ role_map'[BoundId'] \notin issued
            /\ \A c \in Roles : CountOf(c, Counters') >= CountOf(c, Counters)]_vars

\* C10 witness: Surgeon_1 was overwritten by a rebinding, and a later
\* assignment under Surgeon was numbered 2.
C10_Witness ==
    /\ pc = "returned" /\ op = "bound"
    /\ LabelText("Surgeon", 1) \in issued \ Range(role_map)
    /\ role_map[BoundId] = LabelText("Surgeon", 2)
    /\ \E i \in DOMAIN role_map : role_map[i] = LabelText("Assistant", 1)
\* the colour configured for a role category
ConfiguredColour(role) ==
    CASE role = "Surgeon" -> <<0, 0, 255>>
      [] role = "Assistant" -> <<255, 0, 0>>
      [] role = "Nurse" -> <<0, 255, 0>>

\* the decimal digits of n < 100
DecimalText(n) ==
    LET digit(d) == (<<"0", "1", "2", "3", "4", "5", "6", "7", "8", "9">>)[d + 1]
    IN  IF n < 10 THEN <<digit(n)>> ELSE <<digit(n \div 10), digit(n % 10)>>

\* C11: get_label_and_color(id) returns, for an id in role_map, its bound
\* label with the colour configured for the category under which the label
\* was minted, and for any other id the text "ID:<id>" with yellow; the
\* call changes none of role_map, the counters, the pending click and
\* current_role.
C11_LookupResult ==
    /\ [](label_out # <<>> =>
            IF label_out[1] \in DOMAIN role_map
            THEN /\ label_out[2] = role_map[label_out[1]]
                 /\ label_out[3] = ConfiguredColour(minted[label_out[1]])
            ELSE /\ label_out[2] = <<"I", "D", ":">> \o DecimalText(label_out[1])
                 /\ label_out[3] = <<0, 255, 255>>)
    /\ [][label_out' # label_out
            => UNCHANGED << role_map, Counters, click_pending, click_pos,
                            current_role >>]_vars

\* C11 witness: the label just bound under Assistant to an id that held a
\* Surgeon label was looked up and came with the Assistant colour.
C11_Witness ==
    /\ pc = "returned" /\ op = "bound" /\ current_role = "Assistant"
    /\ label_out # <<>> /\ label_out[1] = BoundId
    /\ LabelText("Surgeon", 1) \in issued \ Range(role_map)
    /\ label_out[3] = <<255, 0, 0>>
\* the entries of role_map a step has added or changed
ChangedIds ==
    { id \in DOMAIN role_map' : id \notin DOMAIN role_map \/ role_map'[id] # role_map[id] }

\* C12: in every state the number of successful assignments (the sum of
\* the three counters) is at most the number of register_click calls made
\* so far, and one call of try_assign_from_click adds or changes at most
\* one entry of role_map and removes none.
C12_OneBindingPerClick ==
    /\ [](Assigned <= clicks)
    /\ [][ResolverStep
            => /\ Cardinality(ChangedIds) <= 1
               /\ DOMAIN role_map \subseteq DOMAIN role_map']_vars

\* C12 witness: two clicks were registered and each has caused a binding,
\* the second by a call on a frame of two bodies.
C12_Witness ==
    /\ pc = "returned" /\ op = "bound"
    /\ clicks = 2 /\ Assigned = 2
    /\ Len(bodies.body_list) = 2 /\ ~click_pending

\* the binding state of the manager
Binding == << current_role, click_pending, click_pos, role_map, Counters >>

\* C13: from a failed grab until the next grab no step changes
\* current_role, click_pending, click_pos, role_map or a counter, so a
\* pending click and a selected role are still there at the next cycle.
C13_FailedGrabKeepsBinding ==
    [][grab_ok' = "failed" => Binding' = Binding]_vars

\* C13 witness: a grab has just failed; the click and the role that were
\* waiting after an earlier binding are still waiting.
C13_Witness ==
    /\ main_pc = "grab" /\ grab_ok = "failed"
    /\ click_pending /\ current_role = "Nurse" /\ click_pos = <<2, 1>>
    /\ DOMAIN role_map # {}

\* C14 as stated: whenever main() has returned, by the quit key or by an
\* early return, the teardown has run.
C14_Original == main_pc = "done" => teardown

\* C14 amended: when main() returns after the quit key the teardown has
\* run (frame source closed, no window left); when it returns early on an
\* error the teardown has not run, the frame source was never opened and no
\* window was created.
C14_TeardownAfterLoop ==
    main_pc = "done" =>
        IF reported = "none"
        THEN teardown /\ camera = "closed" /\ windows = {}
        ELSE ~teardown /\ camera = "unopened" /\ windows = {}

\* C14 witness: main() has returned after the quit key, pressed while
\* the program was paused and after a click.
C14_Witness ==
    /\ main_pc = "done" /\ teardown /\ reported = "none"
    /\ clicks > 0 /\ key_wait = 0

\* both input options are given on the command line
BothOptions == opt.input_svo_file # <<>> /\ opt.ip_address # <<>>

\* the binding state is as at construction
Pristine ==
    /\ role_map = EmptyMap /\ Counters = <<0, 0, 0>>
    /\ current_role = "None" /\ ~click_pending /\ click_pos = <<0, 0>>

\* C15: with both input options given main() never gets past the test of
\* the options, and once opening the frame source has failed main() never
\* goes on: in both cases it has printed its message, has returned or is
\* about to, the loop was not entered (no grab made), no manager and no
\* viewer were constructed, no window exists and the binding state was
\* never touched.
C15_NoLoopOnError ==
    /\ BothOptions => main_pc \in {"args", "done"}
    /\ (BothOptions /\ main_pc = "done") => reported = "both_inputs"
    /\ reported # "none" =>
         /\ main_pc = "done"
         /\ grab_ok = "none"
         /\ made \cap {"binding_manager", "viewer"} = {}
         /\ windows = {}
         /\ Pristine

\* C15 witness: main() has returned because the frame source given by a
\* replay file could not be opened.
C15_Witness ==
    /\ main_pc = "done" /\ reported = "open_error"
    /\ opt.input_svo_file # <<>> /\ made = {}

\* C18: a click is registered only during the key poll and the resolver
\* runs only right after a successful retrieval; the call that binds a
\* body mints the label under the role named by the latest role key, for
\* the first nearest body to the click among the bodies of the frame just
\* retrieved.
C18_ResolvedInConsumingCycle ==
    /\ [][clicks' # clicks => main_pc = "waitKey"]_vars
    /\ [][ResolverStep => main_pc = "retrieve" /\ grab_ok = "ok"]_vars
    /\ [][(ResolverStep /\ role_map' # role_map)
            => \E i \in 1..Len(bodies'.body_list) :
                 /\ FirstNearest(bodies'.body_list, i, click_pos)
                 /\ BoundExactly(bodies'.body_list[i].id)
                 /\ RoleNamedBy(last_role_key) \in Roles
                 /\ role_map'[bodies'.body_list[i].id] =
                      LabelText(RoleNamedBy(last_role_key),
                                CountOf(RoleNamedBy(last_role_key), Counters'))]_vars

\* C18 witness: the click arrived while Surgeon was selected and another
\* person was on display; 'a' was pressed before the next frame, and the
\* person of that frame has been bound as Assistant_1.
C18_Witness ==
    /\ main_pc = "render" /\ op = "bound"
    /\ click_role = "Surgeon" /\ current_role = "Assistant"
    /\ seen_ids # {} /\ BoundId \notin seen_ids
    /\ role_map[BoundId] = LabelText("Assistant", 1)

\* C20: the key poll is reached only in a cycle whose grab succeeded, so
\* the loop is left (by the quit key) only then; a failed grab leads
\* straight to the next grab, and from a failed grab until the next grab
\* the loop is not left and the role is not changed.
C20_KeysOnlyAfterGrab ==
    /\ [](main_pc \in {"waitKey", "cleanup"} => grab_ok = "ok")
    /\ [][grab_ok' = "failed"
            => /\ main_pc' = "grab"
               /\ current_role' = current_role
               /\ last_role_key' = last_role_key
               /\ key_wait' = key_wait]_vars

\* C20 witness: the program is paused with a role selected, and the grab
\* after the last key poll has failed.
C20_Witness ==
    /\ main_pc = "grab" /\ grab_ok = "failed"
    /\ key_wait = 0 /\ last_role_key = KEY_S
\* the ids of the bodies of a frame
IdsOf(frame) == { frame.body_list[i].id : i \in 1..Len(frame.body_list) }

\* C16: a step never removes an id from role_map, whether or not the id is
\* in the frame, and changes the label of a bound id only when it is a
\* successful assignment that selects this id; the text shown for a bound
\* id is therefore the label of its latest binding: one of the labels
\* issued, in the colour of the role it was last bound under.
C16_BindingsPersist ==
    /\ [][\A id \in DOMAIN role_map :
            /\ id \in DOMAIN role_map'
            /\ role_map'[id] # role_map[id]
                 => ResolverStep /\ op' = "bound" /\ BoundId' = id]_vars
    /\ [](\A id \in DOMAIN role_map :
            /\ LabelAndColor(role_map, id)[1] = role_map[id]
            /\ role_map[id] \in issued
            /\ LabelAndColor(role_map, id)[2] = ConfiguredColour(minted[id]))

\* C16 witness: a resolver call has bound one id on a frame from which
\* another bound id is absent; the absent id still holds Surgeon_1.
C16_Witness ==
    /\ pc = "returned" /\ op = "bound"
    /\ \E id \in DOMAIN role_map \ IdsOf(bodies) :
         role_map[id] = LabelText("Surgeon", 1)
    /\ role_map[BoundId] = LabelText("Nurse", 1)

\* C17: every value of role_map is "<c>_<n>" for a category c and a number
\* n between 1 and the present counter of c; none is a bare role name or
\* "Unknown".
C17_LabelForm ==
    \A id \in DOMAIN role_map :
        /\ \E c \in Roles : \E n \in 1..CountOf(c, Counters) :
             role_map[id] = LabelText(c, n)
        /\ role_map[id] \notin
             { <<"S", "u", "r", "g", "e", "o", "n">>,
               <<"A", "s", "s", "i", "s", "t", "a", "n", "t">>,
               <<"N", "u", "r", "s", "e">>,
               <<"U", "n", "k", "n", "o", "w", "n">> }

\* C17 witness: three Surgeon labels were issued; Surgeon_2 and Surgeon_3
\* are held, below and at the counter.
C17_Witness ==
    /\ pc = "returned" /\ op = "bound"
    /\ surgeon_count = 3
    /\ Range(role_map) = { LabelText("Surgeon", 2), LabelText("Surgeon", 3) }
\* the binding state of the manager, field by field
ManagerState ==
    [role_map |-> role_map, current_role |-> current_role,
     click_pending |-> click_pending, click_pos |-> click_pos,
     surgeon_count |-> surgeon_count, assistant_count |-> assistant_count,
     nurse_count |-> nurse_count]

\* C19: fed the same frames, clicks and keys, the binding locals of
\* body_tracking.py and the fields of RoleBindingManager are equal at the
\* end of every cycle (once the frame is handled and before the next one).
C19_SameBindingState == pc = "idle" => script = ManagerState
====
